---- MODULE Spec2Model ----
(***************************************************************************)
(* afc::FastStringBuffer<CharType, allocMode> (src/src/afc/                *)
(* FastStringBuffer.hpp) as a state machine: two buffer objects, the heap  *)
(* they allocate from, and the caller that drives them.                    *)
(*                                                                         *)
(* std::size_t is W bits wide and all size_t arithmetic is done modulo     *)
(* 2^W.  A pointer into a block is the block's id plus an element offset;  *)
(* m_bufEnd is kept as its distance from m_buf (what size() computes).     *)
(***************************************************************************)
EXTENDS Integers, Sequences, FiniteSets, TLC

\* ------------------------------------------------------------ bounds
W == 4            \* bits of std::size_t
MaxBlocks == 2    \* blocks the allocator can have handed out at one time
MaxAppend == 2    \* longest source array given to one append call
MaxSize == 2      \* largest size() the caller drives a buffer to, one object
MaxPairSize == 0  \* the same in a program with two objects
MaxSelfSize == 4  \* the same in the program that appends a buffer to itself
MaxMoveSize == 1  \* the same in the program that moves buffers with content
MaxDebugSize == 3 \* the same in the program built with assert()
MaxExampleSize == 8 \* the same in the program that reserves 5 and appends
MaxTailSize == 1  \* the same in the program that copies Tail objects
MaxTails == 3     \* objects of class Tail the caller declares
MaxTailCalls == 4 \* calls on the Tails of one borrowTail()

\* ------------------------------------------------------- arithmetic
RECURSIVE Pow2(_)
Pow2(k) == IF k = 0 THEN 1 ELSE 2 * Pow2(k - 1)

\* std::numeric_limits<std::size_t>::max()
SizeMax == Pow2(W) - 1
\* std::numeric_limits<std::ptrdiff_t>::max()
PtrdiffMax == Pow2(W - 1) - 1
\* unsigned arithmetic of std::size_t
Wrap(x) == x % Pow2(W)

Min(x, y) == IF x < y THEN x ELSE y

\* afc::math::ceilPow2 on std::size_t: the smallest power of two >= x, computed
\* in W bits, so that a result of 2^W is 0 (and so is ceilPow2(0), where x - 1
\* wraps).
CeilPow2(x) ==
    IF x = 0 THEN 0
    ELSE Wrap(CHOOSE p \in {Pow2(k) : k \in 0..W} :
                /\ p >= x
                /\ \A q \in {Pow2(k) : k \in 0..W} : q >= x => p <= q)

\* ---------------------------------------------------------- domains
Bufs == {"a", "b"}
Null == 0
BlockIds == 1..MaxBlocks
\* values of CharType the caller writes; CharType(0) is the terminator
Chars == {1, 2}
Zero == 0
\* the indeterminate value of a slot of a malloc'ed block never written
Indet == -1
AllocModes == {"pow2", "accurate"}
\* sizeof(CharType)
CharSizes == {1, 4}

VARIABLES
    objs,       \* the FastStringBuffer objects the program declares
    allocMode,  \* template parameter allocMode
    charSize,   \* sizeof(CharType)
    ndebug,     \* TRUE: assert() compiles to nothing
    tailDebug,  \* TRUE: AFC_FASTSTRINGBUFFER_DEBUG is defined (Tail is a class)
    sizeLimit,  \* the largest size() the caller's program drives a buffer to
    heap,       \* block id -> [st, data]
    buf,        \* buffer object -> its fields
    held,       \* blocks the caller got from detach() and has not freed
    tail,       \* the Tail the caller borrowed and has not returned
    appended,   \* per buffer: what was appended since construction
    last,       \* the call that was made last, and how it ended
    halted,     \* why the process stopped, or "no"
    tails,      \* the objects of class Tail the caller declares
    copyCount,  \* the long that the m_copyCount of the Tails of one borrow share
    tailCalls   \* the calls on these Tails since borrowTail(), in order

vars == <<objs, allocMode, charSize, ndebug, tailDebug, sizeLimit, heap, buf, held, tail,
          appended, last, halted, tails, copyCount, tailCalls>>

\* ------------------------------------------------------------- heap
NoBlock == [st |-> "none", data |-> <<>>]

Fresh(n) == [i \in 1..n |-> Indet]

\* the first n elements of d, padded with indeterminate slots
Fit(d, n) == [i \in 1..n |-> IF i <= Len(d) THEN d[i] ELSE Indet]

FreeIds(h) == {i \in BlockIds : h[i].st = "none"}

MinOf(S) == CHOOSE i \in S : \A j \in S : i <= j

\* a freed block's address is reused once nothing points at it any more
Referenced(bf, hd, tl) ==
    {bf[b].m_buf : b \in {x \in Bufs : bf[x].alive}} \cup hd
        \cup (IF tl.owner = "none" THEN {} ELSE {tl.blk})

Reclaim(h, bf, hd, tl) ==
    [i \in BlockIds |->
        IF h[i].st = "freed" /\ i \notin Referenced(bf, hd, tl) THEN NoBlock ELSE h[i]]

\* std::malloc(bytes): the outcomes [ptr, heap]
Malloc(h, bytes) ==
    {[ptr |-> Null, heap |-> h]} \cup
    (IF FreeIds(h) = {} THEN {}
     ELSE LET id == MinOf(FreeIds(h))
          IN {[ptr |-> id,
               heap |-> [h EXCEPT ![id] =
                          [st |-> "live", data |-> Fresh(bytes \div charSize)]]]})

\* std::free(p) of a live block
Free(h, p) == [h EXCEPT ![p] = [st |-> "freed", data |-> <<>>]]

\* std::realloc(p, bytes) for p null or a live block: the outcomes [ptr, heap].
\* realloc(p, 0) is implementation-defined: it frees p and returns null, or
\* returns null and keeps p, or returns a block of no bytes.
Realloc(h, p, bytes) ==
    IF p = Null THEN Malloc(h, bytes)
    ELSE LET moved == [h EXCEPT ![p] = NoBlock]
             id == MinOf(FreeIds(moved))
             grown == [ptr |-> id,
                       heap |-> [moved EXCEPT ![id] =
                                  [st |-> "live",
                                   data |-> Fit(h[p].data, bytes \div charSize)]]]
         IN IF bytes = 0
            THEN {[ptr |-> Null, heap |-> Free(h, p)], [ptr |-> Null, heap |-> h], grown}
            ELSE {[ptr |-> Null, heap |-> h], grown}

\* ----------------------------------------------------------- buffer
\* FastStringBuffer() : m_buf(nullptr), m_bufEnd(nullptr), m_capacity(0)
EmptyBuf == [alive |-> TRUE, m_buf |-> Null, m_bufEnd |-> 0, m_capacity |-> 0]
\* storage of an object that is not constructed
DeadBuf == [alive |-> FALSE, m_buf |-> Null, m_bufEnd |-> 0, m_capacity |-> 0]

\* no Tail is borrowed.  Of a borrowed Tail: the buffer and block it points into,
\* where it pointed when borrowed and where it points now, and, for the record,
\* what the buffer held when it was borrowed and what the caller wrote since
NoTail == [owner |-> "none", blk |-> Null, from |-> 0, ptr |-> 0, cap |-> 0,
           before |-> <<>>, written |-> <<>>]

\* a call: the operation, the object, how it ended ("ok", "badAlloc",
\* "exception") and whether it called the allocator
Call(op, b, res, called) == [op |-> op, b |-> b, res |-> res, called |-> called]
NoCall == Call("none", "none", "ok", FALSE)

\* the objects of class Tail (AFC_FASTSTRINGBUFFER_DEBUG) the caller declares
TailIds == 1..MaxTails
\* storage of a Tail that is not constructed.  Of a Tail: m_ptr as the block
\* and the offset it points to, and m_returned; m_copyCount points to copyCount
NoObject == [alive |-> FALSE, blk |-> Null, m_ptr |-> 0, m_returned |-> FALSE]
\* a call on a Tail: the operation, the object, and the object it copies
TailCall(op, t, o) == [op |-> op, t |-> t, o |-> o]

size(b) == buf[b].m_bufEnd
capacity(b) == buf[b].m_capacity

maxCapacity == Min(SizeMax \div charSize - 1, PtrdiffMax)

\* the elements [0, size) of b, as far as its storage holds them
content(b) ==
    IF buf[b].m_buf = Null THEN <<>>
    ELSE LET d == heap[buf[b].m_buf].data
         IN [i \in 1..Min(size(b), Len(d)) |-> d[i]]

\* badAlloc() instead of a storage size
BadAlloc == -1

\* Variants of nextStorageSize that each drop one thing the function does; the
\* properties on the sized constructor and reserve are re-checked against them
\* to show that they rest on it.
\* - without the test of the request against maxCapacity()
nextStorageSizeUnchecked(cap) ==
    IF allocMode = "pow2"
    THEN LET maxStorageSize == Wrap(maxCapacity + 1)
             newStorageSize == CeilPow2(Wrap(cap + 1))
         IN IF newStorageSize = 0 \/ newStorageSize >= maxStorageSize
            THEN maxStorageSize
            ELSE newStorageSize
    ELSE Wrap(cap + 1)

\* - without the rounding to a power of two
nextStorageSizeExact(cap) ==
    IF cap > maxCapacity THEN BadAlloc ELSE Wrap(cap + 1)

\* - rounding to a power of two under both policies
nextStorageSizeRounded(cap) ==
    LET maxStorageSize == Wrap(maxCapacity + 1)
        newStorageSize == CeilPow2(Wrap(cap + 1))
    IN IF newStorageSize = 0 \/ newStorageSize >= maxStorageSize
       THEN IF cap > maxCapacity THEN BadAlloc ELSE maxStorageSize
       ELSE newStorageSize

\* - without the reduction of the rounded size to maxCapacity() + 1
nextStorageSizeUnclamped(cap) ==
    IF cap > maxCapacity THEN BadAlloc
    ELSE IF allocMode = "pow2" THEN CeilPow2(Wrap(cap + 1)) ELSE Wrap(cap + 1)

\* nextStorageSize(capacity): the number of elements of the block that is to
\* hold `capacity` elements and the terminator, or BadAlloc
nextStorageSize(cap) ==
    IF allocMode = "pow2"
    THEN LET maxStorageSize == Wrap(maxCapacity + 1)
             requestedStorageSize == Wrap(cap + 1)
             newStorageSize == CeilPow2(requestedStorageSize)
         IN IF newStorageSize = 0 \/ newStorageSize >= maxStorageSize
            THEN IF cap > maxCapacity THEN BadAlloc ELSE maxStorageSize
            ELSE newStorageSize
    ELSE IF cap > maxCapacity THEN BadAlloc ELSE Wrap(cap + 1)

\* the caller's source arrays
Sources == UNION {[1..k -> Chars] : k \in 0..MaxAppend}

\* the data of a block after std::copy_n(s, n, d + off)
CopyN(d, off, s) ==
    [i \in 1..Len(d) |-> IF i > off /\ i <= off + Len(s) THEN s[i - off] ELSE d[i]]

\* n elements can be stored at p + off
Writable(p, off, n) ==
    /\ p # Null
    /\ heap[p].st = "live"
    /\ off + n <= Len(heap[p].data)

\* p points at a block that was freed
Dangling(p) == p # Null /\ heap[p].st # "live"

Untracked == [ok |-> FALSE, seq |-> <<>>]

\* the sequence of calls on b is no longer one of reserve/append only
Taint(b) == appended' = [appended EXCEPT ![b] = Untracked]

\* the program and its build stay what they are
Scenario == UNCHANGED <<objs, allocMode, charSize, ndebug, tailDebug, sizeLimit>>

\* an operation of the buffer touches no object of class Tail
Frame == Scenario /\ UNCHANGED <<tails, copyCount, tailCalls>>

\* the capacities the caller asks for: all of them where there is one object
Requests == IF objs = Bufs THEN {0, 1, 2, maxCapacity, SizeMax} ELSE 0..SizeMax

\* the largest size() the caller produces in this program
SizeLimit == sizeLimit

\* the process stops: a failed assertion, or behaviour the language leaves undefined
Halt(why, call) ==
    /\ halted' = why
    /\ last' = call
    /\ UNCHANGED <<heap, buf, held, tail, appended>>
    /\ Frame

\* no object is constructed and nothing is allocated
Start ==
    /\ heap = [i \in BlockIds |-> NoBlock]
    /\ buf = [b \in Bufs |-> DeadBuf]
    /\ held = {}
    /\ tail = NoTail
    /\ appended = [b \in Bufs |-> Untracked]
    /\ last = NoCall
    /\ halted = "no"
    /\ tails = [t \in TailIds |-> NoObject]
    /\ copyCount = 0
    /\ tailCalls = <<>>

\* a release build (NDEBUG) with Tail a plain pointer
\* assert(e) where e is false: with NDEBUG nothing is checked, and the caller
\* is taken to keep to the contract; otherwise the process stops in the assert
Asserts(call) == ~ndebug /\ Halt("assert", call)

Init ==
    /\ objs \in {{"a"}, Bufs}
    /\ allocMode \in AllocModes
    /\ charSize \in CharSizes
    /\ ndebug = TRUE
    /\ tailDebug = FALSE
    /\ sizeLimit = IF objs = Bufs THEN MaxPairSize ELSE MaxSize
    /\ Start

\* FastStringBuffer()
Construct(b) ==
    /\ halted = "no"
    /\ ~buf[b].alive
    /\ buf' = [buf EXCEPT ![b] = EmptyBuf]
    /\ appended' = [appended EXCEPT ![b] = [ok |-> TRUE, seq |-> <<>>]]
    /\ last' = Call("construct", b, "ok", FALSE)
    /\ UNCHANGED <<heap, held, tail, halted>>
    /\ Frame

\* FastStringBuffer(initialCapacity)
ConstructSized(b, n) ==
    /\ halted = "no"
    /\ ~buf[b].alive
    /\ UNCHANGED <<held, tail, halted>>
    /\ Frame
    /\ IF n > 0
       THEN LET storageSize == nextStorageSize(n)
            IN IF storageSize = BadAlloc
               THEN /\ last' = Call("constructSized", b, "badAlloc", FALSE)
                    /\ UNCHANGED <<heap, buf, appended>>
               ELSE \E r \in Malloc(heap, Wrap(storageSize * charSize)) :
                       IF r.ptr # Null
                       THEN /\ heap' = r.heap
                            /\ buf' = [buf EXCEPT ![b] =
                                        [alive |-> TRUE, m_buf |-> r.ptr, m_bufEnd |-> 0,
                                         m_capacity |-> Wrap(storageSize - 1)]]
                            /\ appended' = [appended EXCEPT ![b] = [ok |-> TRUE, seq |-> <<>>]]
                            /\ last' = Call("constructSized", b, "ok", TRUE)
                       ELSE /\ last' = Call("constructSized", b, "badAlloc", TRUE)
                            /\ UNCHANGED <<heap, buf, appended>>
       ELSE /\ buf' = [buf EXCEPT ![b] = EmptyBuf]
            /\ appended' = [appended EXCEPT ![b] = [ok |-> TRUE, seq |-> <<>>]]
            /\ last' = Call("constructSized", b, "ok", FALSE)
            /\ UNCHANGED heap

\* A variant of the move constructor that leaves o.m_capacity as it was.
MoveConstructKeepsCapacity(b, o) ==
    /\ halted = "no"
    /\ ~buf[b].alive
    /\ buf[o].alive
    /\ tail.owner = "none"
    /\ buf' = [buf EXCEPT ![b] = buf[o], ![o] = [EmptyBuf EXCEPT !.m_capacity = buf[o].m_capacity]]
    /\ appended' = [appended EXCEPT ![b] = Untracked, ![o] = Untracked]
    /\ last' = Call("moveConstruct", b, "ok", FALSE)
    /\ UNCHANGED <<heap, held, tail, halted>>
    /\ Frame

\* FastStringBuffer(FastStringBuffer &&o)
MoveConstruct(b, o) ==
    /\ halted = "no"
    /\ ~buf[b].alive
    /\ buf[o].alive
    /\ tail.owner = "none"
    /\ buf' = [buf EXCEPT ![b] = buf[o], ![o] = EmptyBuf]
    /\ appended' = [appended EXCEPT ![b] = Untracked, ![o] = Untracked]
    /\ last' = Call("moveConstruct", b, "ok", FALSE)
    /\ UNCHANGED <<heap, held, tail, halted>>
    /\ Frame

\* A variant of the move assignment without std::swap(m_capacity, o.m_capacity).
MoveAssignTwoSwaps(b, o) ==
    /\ halted = "no"
    /\ buf[b].alive
    /\ buf[o].alive
    /\ tail.owner = "none"
    /\ buf' = [buf EXCEPT ![b] = [buf[o] EXCEPT !.m_capacity = buf[b].m_capacity],
                          ![o] = [buf[b] EXCEPT !.m_capacity = buf[o].m_capacity]]
    /\ appended' = [appended EXCEPT ![b] = Untracked, ![o] = Untracked]
    /\ last' = Call("moveAssign", b, "ok", FALSE)
    /\ UNCHANGED <<heap, held, tail, halted>>
    /\ Frame

\* operator=(FastStringBuffer &&o): three std::swap calls
MoveAssign(b, o) ==
    /\ halted = "no"
    /\ buf[b].alive
    /\ buf[o].alive
    /\ tail.owner = "none"
    /\ buf' = [buf EXCEPT ![b] = buf[o], ![o] = buf[b]]
    /\ appended' = [appended EXCEPT ![b] = Untracked, ![o] = Untracked]
    /\ last' = Call("moveAssign", b, "ok", FALSE)
    /\ UNCHANGED <<heap, held, tail, halted>>
    /\ Frame

\* ~FastStringBuffer(): std::free(m_buf)
Destroy(b) ==
    /\ halted = "no"
    /\ buf[b].alive
    /\ tail.owner = "none"
    /\ IF Dangling(buf[b].m_buf)
       THEN Halt("doubleFree", Call("destroy", b, "ok", TRUE))
       ELSE /\ buf' = [buf EXCEPT ![b] = DeadBuf]
            /\ heap' = Reclaim(IF buf[b].m_buf = Null THEN heap ELSE Free(heap, buf[b].m_buf),
                               buf', held, tail)
            /\ Taint(b)
            /\ last' = Call("destroy", b, "ok", buf[b].m_buf # Null)
            /\ UNCHANGED <<held, tail, halted>>
            /\ Frame

\* A variant of what follows std::realloc without m_bufEnd = m_buf + size.
ReallocToLosesEnd(b, call, newCapacity, bytes, stop) ==
    IF Dangling(buf[b].m_buf)
    THEN Halt("doubleFree", call)
    ELSE \E r \in Realloc(heap, buf[b].m_buf, bytes) :
            /\ halted' = stop
            /\ UNCHANGED <<held, tail>>
            /\ Frame
            /\ IF r.ptr # Null
               THEN /\ buf' = [buf EXCEPT ![b].m_buf = r.ptr, ![b].m_bufEnd = 0,
                                          ![b].m_capacity = newCapacity]
                    /\ heap' = r.heap
                    /\ last' = call
                    /\ UNCHANGED appended
               ELSE /\ heap' = r.heap
                    /\ last' = [call EXCEPT !.res = "badAlloc"]
                    /\ Taint(b)
                    /\ UNCHANGED buf

\* the tail of expand() and of expand(capacity): std::realloc and what follows.
\* stop is "no", or why the object is not followed past this call.
ReallocTo(b, call, newCapacity, bytes, stop) ==
    IF Dangling(buf[b].m_buf)
    THEN Halt("doubleFree", call)
    ELSE \E r \in Realloc(heap, buf[b].m_buf, bytes) :
            /\ halted' = stop
            /\ UNCHANGED <<held, tail>>
            /\ Frame
            /\ IF r.ptr # Null
               THEN /\ buf' = [buf EXCEPT ![b].m_buf = r.ptr, ![b].m_capacity = newCapacity]
                    /\ heap' = r.heap
                    /\ last' = call
                    /\ UNCHANGED appended
               ELSE /\ heap' = r.heap
                    /\ last' = [call EXCEPT !.res = "badAlloc"]
                    /\ Taint(b)
                    /\ UNCHANGED buf

\* expand(capacity)
expandTo(b, call, n) ==
    LET newStorageSize == nextStorageSize(n)
    IN IF newStorageSize = BadAlloc
       THEN /\ last' = [call EXCEPT !.res = "badAlloc", !.called = FALSE]
            /\ Taint(b)
            /\ UNCHANGED <<heap, buf, held, tail, halted>>
            /\ Frame
       ELSE ReallocTo(b, call, Wrap(newStorageSize - 1), Wrap(newStorageSize * charSize), "no")

\* expand().  Where assert(newCapacity <= maxCapacity()) does not hold, a build
\* with assert() stops there; a build without it goes on to std::realloc, and
\* the object, which the code takes to be impossible from there on, is followed
\* through that call and no further.
expand(b, call) ==
    IF buf[b].m_capacity = maxCapacity
    THEN /\ last' = [call EXCEPT !.res = "exception", !.called = FALSE]
         /\ Taint(b)
         /\ UNCHANGED <<heap, buf, held, tail, halted>>
         /\ Frame
    ELSE LET newCapacity == IF allocMode = "pow2"
                            THEN Wrap(buf[b].m_capacity * 2 + 1)
                            ELSE Wrap(buf[b].m_capacity + 1)
             asserted == allocMode = "pow2" => newCapacity <= maxCapacity
         IN IF ~asserted /\ ~ndebug
            THEN Halt("assert", call)
            ELSE ReallocTo(b, call, newCapacity, Wrap(Wrap(newCapacity + 1) * charSize),
                           IF asserted THEN "no" ELSE "overflow")

\* reserve(n)
Reserve(b, n) ==
    /\ halted = "no"
    /\ buf[b].alive
    /\ tail.owner = "none"
    /\ IF buf[b].m_capacity < n
       THEN expandTo(b, Call("reserve", b, "ok", TRUE), n)
       ELSE /\ last' = Call("reserve", b, "ok", FALSE)
            /\ UNCHANGED <<heap, buf, held, tail, appended, halted>>
            /\ Frame

\* reserveForOne(): m_buf + m_capacity == m_bufEnd.  On a null m_buf with a
\* non-zero m_capacity the pointer sum is undefined, and either answer is possible.
ReserveForOne(b) ==
    /\ halted = "no"
    /\ buf[b].alive
    /\ tail.owner = "none"
    /\ \E full \in IF buf[b].m_buf = Null /\ buf[b].m_capacity # 0
                   THEN BOOLEAN
                   ELSE {buf[b].m_capacity = buf[b].m_bufEnd} :
          IF full
          THEN expand(b, Call("reserveForOne", b, "ok", TRUE))
          ELSE /\ last' = Call("reserveForOne", b, "ok", FALSE)
               /\ UNCHANGED <<heap, buf, held, tail, appended, halted>>
               /\ Frame

\* append(str, n): std::copy_n(str, n, m_bufEnd), str an array of the caller's
AppendStr(b, s) ==
    /\ halted = "no"
    /\ buf[b].alive
    /\ tail.owner = "none"
    /\ Wrap(size(b) + Len(s)) <= SizeLimit
    \* assert(m_buf != nullptr); assert(size() + n <= m_capacity)
    /\ IF buf[b].m_buf = Null \/ Wrap(size(b) + Len(s)) > buf[b].m_capacity
       THEN Asserts(Call("append", b, "ok", FALSE))
       ELSE IF Writable(buf[b].m_buf, size(b), Len(s))
       THEN /\ heap' = [heap EXCEPT ![buf[b].m_buf].data = CopyN(@, size(b), s)]
            /\ buf' = [buf EXCEPT ![b].m_bufEnd = @ + Len(s)]
            /\ appended' = [appended EXCEPT ![b].seq = IF appended[b].ok THEN @ \o s ELSE @]
            /\ last' = Call("append", b, "ok", FALSE)
            /\ UNCHANGED <<held, tail, halted>>
            /\ Frame
       ELSE Halt("outOfBounds", Call("append", b, "ok", FALSE))

\* append(c): *m_bufEnd++ = c
AppendChar(b, c) ==
    /\ halted = "no"
    /\ buf[b].alive
    /\ tail.owner = "none"
    /\ size(b) + 1 <= SizeLimit
    \* assert(m_buf != nullptr); assert(m_buf + capacity() > m_bufEnd)
    /\ IF buf[b].m_buf = Null \/ capacity(b) <= buf[b].m_bufEnd
       THEN Asserts(Call("appendChar", b, "ok", FALSE))
       ELSE IF Writable(buf[b].m_buf, size(b), 1)
       THEN /\ heap' = [heap EXCEPT ![buf[b].m_buf].data[size(b) + 1] = c]
            /\ buf' = [buf EXCEPT ![b].m_bufEnd = @ + 1]
            /\ appended' = [appended EXCEPT ![b].seq = IF appended[b].ok THEN Append(@, c) ELSE @]
            /\ last' = Call("appendChar", b, "ok", FALSE)
            /\ UNCHANGED <<held, tail, halted>>
            /\ Frame
       ELSE Halt("outOfBounds", Call("appendChar", b, "ok", FALSE))

\* A variant of std::copy_n that starts reading one element late; the
\* self-append is re-checked against it.
RECURSIVE CopyFromNext(_, _, _, _)
CopyFromNext(d, src, dst, n) ==
    IF n = 0 THEN d
    ELSE CopyFromNext([d EXCEPT ![dst + 1] = d[src + 2]], src + 1, dst + 1, n - 1)

\* std::copy_n(d + src, n, d + dst) within one block: element by element, from
\* the front, each element read when its turn comes
RECURSIVE CopyForward(_, _, _, _)
CopyForward(d, src, dst, n) ==
    IF n = 0 THEN d
    ELSE CopyForward([d EXCEPT ![dst + 1] = d[src + 1]], src + 1, dst + 1, n - 1)

\* append(str, n) with str = c_str() + i or data() + i, a pointer into the
\* buffer's own storage.  The caller reads the elements it appended and, once
\* c_str() has written it, the terminator after them.
AppendSelf(b, i, n) ==
    /\ halted = "no"
    /\ buf[b].alive
    /\ tail.owner = "none"
    /\ buf[b].m_buf # Null
    /\ heap[buf[b].m_buf].st = "live"
    /\ \/ i + n <= size(b)
       \/ /\ i + n = size(b) + 1
          /\ size(b) < Len(heap[buf[b].m_buf].data)
          /\ heap[buf[b].m_buf].data[size(b) + 1] = Zero
    /\ Wrap(size(b) + n) <= SizeLimit
    \* assert(m_buf != nullptr); assert(str != nullptr); assert(size() + n <= m_capacity)
    /\ IF Wrap(size(b) + n) > buf[b].m_capacity
       THEN Asserts(Call("appendSelf", b, "ok", FALSE))
       ELSE IF Writable(buf[b].m_buf, size(b), n)
       THEN /\ heap' = [heap EXCEPT ![buf[b].m_buf].data = CopyForward(@, i, size(b), n)]
            /\ buf' = [buf EXCEPT ![b].m_bufEnd = @ + n]
            /\ Taint(b)
            /\ last' = Call("appendSelf", b, "ok", FALSE)
            /\ UNCHANGED <<held, tail, halted>>
            /\ Frame
       ELSE Halt("outOfBounds", Call("appendSelf", b, "ok", FALSE))

\* static const CharType empty[1] = {CharType(0)}
empty == <<Zero>>

\* what the caller reads at the pointer c_str() returned, up to the terminator
\* slot: `empty`, or the elements 0 .. size() of the block
View(b) ==
    IF buf[b].m_buf = Null THEN empty
    ELSE SubSeq(heap[buf[b].m_buf].data, 1, size(b) + 1)

\* c_str(): *m_bufEnd = CharType(0) unless m_buf is null
CStr(b) ==
    /\ halted = "no"
    /\ buf[b].alive
    /\ tail.owner = "none"
    /\ IF buf[b].m_buf = Null
       THEN /\ last' = Call("c_str", b, "ok", FALSE)
            /\ Taint(b)
            /\ UNCHANGED <<heap, buf, held, tail, halted>>
            /\ Frame
       ELSE IF Writable(buf[b].m_buf, size(b), 1)
            THEN /\ heap' = [heap EXCEPT ![buf[b].m_buf].data[size(b) + 1] = Zero]
                 /\ last' = Call("c_str", b, "ok", FALSE)
                 /\ Taint(b)
                 /\ UNCHANGED <<buf, held, tail, halted>>
                 /\ Frame
            ELSE Halt("outOfBounds", Call("c_str", b, "ok", FALSE))

\* resize(newSize)
Resize(b, newSize) ==
    /\ halted = "no"
    /\ buf[b].alive
    /\ tail.owner = "none"
    /\ newSize <= SizeLimit
    \* assert(m_buf != nullptr || newSize == 0); assert(newSize <= m_capacity)
    /\ IF (buf[b].m_buf = Null /\ newSize # 0) \/ newSize > buf[b].m_capacity
       THEN Asserts(Call("resize", b, "ok", FALSE))
       ELSE /\ buf' = [buf EXCEPT ![b].m_bufEnd = newSize]
            /\ Taint(b)
            /\ last' = Call("resize", b, "ok", FALSE)
            /\ UNCHANGED <<heap, held, tail, halted>>
            /\ Frame

\* clear()
Clear(b) ==
    /\ halted = "no"
    /\ buf[b].alive
    /\ tail.owner = "none"
    /\ buf' = [buf EXCEPT ![b].m_bufEnd = 0]
    /\ Taint(b)
    /\ last' = Call("clear", b, "ok", FALSE)
    /\ UNCHANGED <<heap, held, tail, halted>>
    /\ Frame

\* detach(): result = m_buf; m_buf = m_bufEnd = nullptr.  m_capacity is not assigned.
\* The block is the caller's from here on: the model keeps that it is allocated,
\* and no longer what it holds.
Detach(b) ==
    /\ halted = "no"
    /\ buf[b].alive
    /\ tail.owner = "none"
    /\ buf' = [buf EXCEPT ![b].m_buf = Null, ![b].m_bufEnd = 0]
    /\ held' = IF buf[b].m_buf = Null THEN held ELSE held \cup {buf[b].m_buf}
    /\ heap' = IF Dangling(buf[b].m_buf) \/ buf[b].m_buf = Null THEN heap
               ELSE [heap EXCEPT ![buf[b].m_buf].data = <<>>]
    /\ Taint(b)
    /\ last' = Call("detach", b, "ok", FALSE)
    /\ UNCHANGED <<tail, halted>>
    /\ Frame

\* the caller releases a block that detach() gave it: std::free(p)
FreeHeld(p) ==
    /\ halted = "no"
    /\ p \in held
    /\ tail.owner = "none"
    /\ IF heap[p].st # "live"
       THEN Halt("doubleFree", Call("free", "none", "ok", TRUE))
       ELSE /\ held' = held \ {p}
            /\ heap' = Reclaim(Free(heap, p), buf, held', tail)
            /\ last' = Call("free", "none", "ok", TRUE)
            /\ UNCHANGED <<buf, tail, appended, halted>>
            /\ Frame

\* borrowTail(): return m_bufEnd (Tail is CharType *), or Tail(m_bufEnd), whose
\* constructor has assert(ptr != nullptr).  Where Tail is a pointer the caller
\* borrows no tail from a buffer without storage.
BorrowTail(b) ==
    /\ halted = "no"
    /\ buf[b].alive
    /\ tail.owner = "none"
    /\ IF buf[b].m_buf = Null
       THEN tailDebug /\ Asserts(Call("borrowTail", b, "ok", FALSE))
       ELSE /\ tail' = [owner |-> b, blk |-> buf[b].m_buf, from |-> buf[b].m_bufEnd,
                        ptr |-> buf[b].m_bufEnd, cap |-> buf[b].m_capacity,
                        before |-> content(b), written |-> <<>>]
            /\ Taint(b)
            /\ last' = Call("borrowTail", b, "ok", FALSE)
            /\ UNCHANGED <<heap, buf, held, halted>>
            /\ Frame

\* the caller writes through the borrowed tail: *tail++ = c
TailWrite(c) ==
    /\ halted = "no"
    /\ tail.owner # "none"
    /\ tail.ptr < SizeLimit
    /\ tail.ptr < buf[tail.owner].m_capacity
    /\ IF Writable(tail.blk, tail.ptr, 1)
       THEN /\ heap' = [heap EXCEPT ![tail.blk].data[tail.ptr + 1] = c]
            /\ tail' = [tail EXCEPT !.ptr = @ + 1, !.written = Append(@, c)]
            /\ last' = Call("tailWrite", tail.owner, "ok", FALSE)
            /\ UNCHANGED <<buf, held, appended, halted>>
            /\ Frame
       ELSE Halt("outOfBounds", Call("tailWrite", tail.owner, "ok", FALSE))

\* A variant of returnTail that forgets the returned position: the round trip
\* is re-checked against it.
ReturnTailForgets(b) ==
    /\ halted = "no"
    /\ tail.owner = b
    /\ tail.ptr <= buf[b].m_capacity
    /\ buf' = buf
    /\ tail' = NoTail
    /\ last' = Call("returnTail", b, "ok", FALSE)
    /\ UNCHANGED <<heap, held, appended, halted>>
    /\ Frame

\* the caller moves the borrowed tail on without writing: ++tail.  The pointer
\* stays within the block or one past its end.
TailSkip ==
    /\ halted = "no"
    /\ tail.owner # "none"
    /\ heap[tail.blk].st = "live"
    /\ tail.ptr < Len(heap[tail.blk].data)
    /\ tail' = [tail EXCEPT !.ptr = @ + 1]
    /\ last' = Call("tailSkip", tail.owner, "ok", FALSE)
    /\ UNCHANGED <<heap, buf, held, appended, halted>>
    /\ Frame

\* returnTail(tail): m_bufEnd = tail, after assert(tail <= m_buf + m_capacity)
\* where Tail is a pointer.  Where Tail is a class, returnTail(const Tail &) has
\* assert(!tail.m_returned), which holds of a tail that is returned once, and
\* compares nothing with the capacity.
ReturnTail(b) ==
    /\ halted = "no"
    /\ tail.owner = b
    /\ IF ~tailDebug /\ tail.ptr > buf[b].m_capacity
       THEN Asserts(Call("returnTail", b, "ok", FALSE))
       ELSE /\ buf' = [buf EXCEPT ![b].m_bufEnd = tail.ptr]
            /\ tail' = NoTail
            /\ last' = Call("returnTail", b, "ok", FALSE)
            /\ UNCHANGED <<heap, held, appended, halted>>
            /\ Frame

Next ==
    \/ \E b \in objs : Construct(b)
    \/ \E b \in objs, n \in Requests : ConstructSized(b, n)
    \/ \E b \in objs, o \in objs : MoveConstruct(b, o)
    \/ \E b \in objs, o \in objs : MoveAssign(b, o)
    \/ \E b \in objs : Destroy(b)
    \/ \E b \in objs, n \in Requests : Reserve(b, n)
    \/ \E b \in objs : ReserveForOne(b)
    \/ \E b \in objs, s \in Sources : AppendStr(b, s)
    \/ \E b \in objs, c \in Chars : AppendChar(b, c)
    \/ \E b \in objs : CStr(b)
    \/ \E b \in objs, n \in 0..SizeLimit : Resize(b, n)
    \/ \E b \in objs : Clear(b)
    \/ \E b \in objs : Detach(b)
    \/ \E p \in BlockIds : FreeHeld(p)
    \/ \E b \in objs : BorrowTail(b)
    \/ \E c \in Chars : TailWrite(c)
    \/ \E b \in objs : ReturnTail(b)

Spec == Init /\ [][Next]_vars

\* A program with one buffer that also appends from the buffer's own storage.
InitSelf ==
    /\ objs = {"a"}
    /\ allocMode \in AllocModes
    /\ charSize \in CharSizes
    /\ ndebug = TRUE
    /\ tailDebug = FALSE
    /\ sizeLimit = MaxSelfSize
    /\ Start

NextSelf ==
    \/ \E b \in objs : Construct(b)
    \/ \E b \in objs, n \in Requests : ConstructSized(b, n)
    \/ \E b \in objs, n \in Requests : Reserve(b, n)
    \/ \E b \in objs : ReserveForOne(b)
    \/ \E b \in objs, s \in Sources : AppendStr(b, s)
    \/ \E b \in objs : CStr(b)
    \/ \E b \in objs, i \in 0..MaxSelfSize, n \in 1..MaxAppend : AppendSelf(b, i, n)
    \/ \E b \in objs : Clear(b)

SpecSelf == InitSelf /\ [][NextSelf]_vars

\* A program with two buffers that fills them and moves one into the other.
InitMove ==
    /\ objs = Bufs
    /\ allocMode \in AllocModes
    /\ charSize \in CharSizes
    /\ ndebug = TRUE
    /\ tailDebug = FALSE
    /\ sizeLimit = MaxMoveSize
    /\ Start

NextMove ==
    \/ \E b \in objs : Construct(b)
    \/ \E b \in objs, n \in Requests : ConstructSized(b, n)
    \/ \E b \in objs, o \in objs : MoveConstruct(b, o)
    \/ \E b \in objs, o \in objs : MoveAssign(b, o)
    \/ \E b \in objs : Destroy(b)
    \/ \E b \in objs, c \in Chars : AppendChar(b, c)
    \/ \E b \in objs : Detach(b)
    \/ \E p \in BlockIds : FreeHeld(p)

SpecMove == InitMove /\ [][NextMove]_vars

\* A build without NDEBUG, with Tail a pointer or a class, of a program with one
\* buffer whose caller does not keep to the preconditions.
InitDebug ==
    /\ objs = {"a"}
    /\ allocMode \in AllocModes
    /\ charSize \in CharSizes
    /\ ndebug = FALSE
    /\ tailDebug \in BOOLEAN
    /\ sizeLimit = MaxDebugSize
    /\ Start

NextDebug ==
    \/ \E b \in objs : Construct(b)
    \/ \E b \in objs, n \in Requests : ConstructSized(b, n)
    \/ \E b \in objs : ReserveForOne(b)
    \/ \E b \in objs, s \in Sources : AppendStr(b, s)
    \/ \E b \in objs, c \in Chars : AppendChar(b, c)
    \/ \E b \in objs, n \in 0..SizeLimit : Resize(b, n)
    \/ \E b \in objs : BorrowTail(b)
    \/ \E c \in Chars : TailWrite(c)
    \/ TailSkip
    \/ \E b \in objs : ReturnTail(b)

SpecDebug == InitDebug /\ [][NextDebug]_vars

\* A build without NDEBUG of the program that default-constructs a pow2 buffer
\* of one-byte elements, reserves 5 and appends single elements.
InitExample ==
    /\ objs = {"a"}
    /\ allocMode = "pow2"
    /\ charSize = 1
    /\ ndebug = FALSE
    /\ tailDebug = FALSE
    /\ sizeLimit = MaxExampleSize
    /\ Start

NextExample ==
    \/ \E b \in objs : Construct(b)
    \/ \E b \in objs : Reserve(b, 5)
    \/ \E b \in objs, c \in Chars : AppendChar(b, c)
    \/ \E b \in objs : CStr(b)

SpecExample == InitExample /\ [][NextExample]_vars

\* ----------------------------------------------- the Tail class (debug)
\* a call on a Tail that leaves the buffers and the heap alone
TailFrame == UNCHANGED <<heap, buf, held, tail, appended>> /\ Scenario

\* assert(e) in a member of Tail where e is false: the process stops in the call
TailAsserts(call) ==
    /\ ~ndebug
    /\ halted' = "assert"
    /\ tailCalls' = Append(tailCalls, call)
    /\ last' = Call(call.op, "none", "ok", FALSE)
    /\ UNCHANGED <<tails, copyCount>>
    /\ TailFrame

\* Tail t = b.borrowTail(): Tail(m_bufEnd) is constructed in t, with a counter
\* of its own set to 1, after which assert(ptr != nullptr).  The caller borrows
\* when no Tail of an earlier borrow is left.
TailBorrow(b, t) ==
    /\ halted = "no"
    /\ tailDebug
    /\ buf[b].alive
    /\ \A x \in TailIds : ~tails[x].alive
    /\ IF buf[b].m_buf = Null
       THEN /\ ~ndebug
            /\ halted' = "assert"
            /\ tailCalls' = <<>>
            /\ last' = Call("borrowTail", b, "ok", FALSE)
            /\ UNCHANGED <<tails, copyCount>>
            /\ TailFrame
       ELSE /\ tails' = [tails EXCEPT ![t] = [alive |-> TRUE, blk |-> buf[b].m_buf,
                                               m_ptr |-> buf[b].m_bufEnd,
                                               m_returned |-> FALSE]]
            /\ copyCount' = 1
            /\ tailCalls' = <<>>
            /\ last' = Call("borrowTail", b, "ok", FALSE)
            /\ UNCHANGED halted
            /\ TailFrame

\* Tail t(o): m_ptr and m_copyCount are o's, m_returned is false; then
\* assert(!o.m_returned) and ++(*m_copyCount)
TailCopy(t, o) ==
    /\ halted = "no"
    /\ Len(tailCalls) < MaxTailCalls
    /\ ~tails[t].alive
    /\ tails[o].alive
    /\ IF tails[o].m_returned
       THEN TailAsserts(TailCall("copy", t, o))
       ELSE /\ tails' = [tails EXCEPT ![t] = [alive |-> TRUE, blk |-> tails[o].blk,
                                               m_ptr |-> tails[o].m_ptr,
                                               m_returned |-> FALSE]]
            /\ copyCount' = copyCount + 1
            /\ tailCalls' = Append(tailCalls, TailCall("copy", t, o))
            /\ last' = Call("copy", "none", "ok", FALSE)
            /\ UNCHANGED halted
            /\ TailFrame

\* ~Tail(): if (--(*m_copyCount) == 0) assert(m_returned); else
\* assert(!m_returned).  The counter is decremented before either assert.
TailDestroy(t) ==
    /\ halted = "no"
    /\ Len(tailCalls) < MaxTailCalls
    /\ tails[t].alive
    /\ LET passes == IF copyCount - 1 = 0 THEN tails[t].m_returned
                                          ELSE ~tails[t].m_returned
       IN /\ passes \/ ~ndebug
          /\ halted' = IF passes \/ ndebug THEN "no" ELSE "assert"
    /\ copyCount' = copyCount - 1
    /\ tails' = [tails EXCEPT ![t] = NoObject]
    /\ tailCalls' = Append(tailCalls, TailCall("destroy", t, t))
    /\ last' = Call("destroy", "none", "ok", FALSE)
    /\ TailFrame

\* t = o: assert(!o.m_returned), twice; the counter of t is decremented, t takes
\* o's counter, which is incremented, and o's m_ptr.  The Tails of one borrow
\* share one counter, which is left as it was; t.m_returned is not assigned.
TailAssign(t, o) ==
    /\ halted = "no"
    /\ Len(tailCalls) < MaxTailCalls
    /\ tails[t].alive
    /\ tails[o].alive
    /\ IF tails[o].m_returned
       THEN TailAsserts(TailCall("assign", t, o))
       ELSE /\ tails' = [tails EXCEPT ![t].blk = tails[o].blk,
                                      ![t].m_ptr = tails[o].m_ptr]
            /\ tailCalls' = Append(tailCalls, TailCall("assign", t, o))
            /\ last' = Call("assign", "none", "ok", FALSE)
            /\ UNCHANGED <<copyCount, halted>>
            /\ TailFrame

\* ++t: assert(!m_returned); ++m_ptr.  The caller keeps the pointer within the
\* block or one past its end.
TailIncrement(t) ==
    /\ halted = "no"
    /\ Len(tailCalls) < MaxTailCalls
    /\ tails[t].alive
    /\ IF tails[t].m_returned
       THEN TailAsserts(TailCall("increment", t, t))
       ELSE /\ heap[tails[t].blk].st = "live"
            /\ tails[t].m_ptr < Min(SizeLimit, Len(heap[tails[t].blk].data))
            /\ tails' = [tails EXCEPT ![t].m_ptr = @ + 1]
            /\ tailCalls' = Append(tailCalls, TailCall("increment", t, t))
            /\ last' = Call("increment", "none", "ok", FALSE)
            /\ UNCHANGED <<copyCount, halted>>
            /\ TailFrame

\* b.returnTail(t) where Tail is a class: assert(!tail.m_returned);
\* tail.m_returned = true; m_bufEnd = tail.m_ptr.  The caller returns a Tail to
\* the buffer it was borrowed from.
TailReturn(b, t) ==
    /\ halted = "no"
    /\ tailDebug
    /\ Len(tailCalls) < MaxTailCalls
    /\ buf[b].alive
    /\ tails[t].alive
    /\ tails[t].blk = buf[b].m_buf
    /\ IF tails[t].m_returned
       THEN TailAsserts(TailCall("returnTail", t, t))
       ELSE /\ tails' = [tails EXCEPT ![t].m_returned = TRUE]
            /\ buf' = [buf EXCEPT ![b].m_bufEnd = tails[t].m_ptr]
            /\ tailCalls' = Append(tailCalls, TailCall("returnTail", t, t))
            /\ last' = Call("returnTail", b, "ok", FALSE)
            /\ UNCHANGED <<heap, held, tail, appended, copyCount, halted>>
            /\ Scenario

\* A build with AFC_FASTSTRINGBUFFER_DEBUG and without NDEBUG of a program with
\* one buffer whose caller borrows a tail and copies, assigns, advances, returns
\* and destroys Tail objects in any order.
InitTail ==
    /\ objs = {"a"}
    /\ allocMode \in AllocModes
    /\ charSize \in CharSizes
    /\ ndebug = FALSE
    /\ tailDebug = TRUE
    /\ sizeLimit = MaxTailSize
    /\ Start

NextTail ==
    \/ \E b \in objs : Construct(b)
    \/ \E b \in objs, n \in Requests : ConstructSized(b, n)
    \/ \E b \in objs, t \in TailIds : TailBorrow(b, t)
    \/ \E t \in TailIds, o \in TailIds : TailCopy(t, o)
    \/ \E t \in TailIds : TailDestroy(t)
    \/ \E t \in TailIds, o \in TailIds : TailAssign(t, o)
    \/ \E t \in TailIds : TailIncrement(t)
    \/ \E b \in objs, t \in TailIds : TailReturn(b, t)

SpecTail == InitTail /\ [][NextTail]_vars


\* ---------------------------------------------------------------- claims

\* C1: in every reachable state every buffer has 0 <= size() <= capacity() and
\* capacity() <= maxCapacity().
C1_SizeWithinCapacity ==
    \A b \in objs :
        buf[b].alive =>
            /\ 0 <= size(b)
            /\ size(b) <= capacity(b)
            /\ capacity(b) <= maxCapacity

\* C2: a buffer whose m_buf is null has size() = 0 and capacity() = 0, and a
\* buffer with capacity() > 0 owns an allocated block of capacity() + 1 elements.
C2_NullStorageIsEmpty ==
    \A b \in objs :
        buf[b].alive =>
            /\ buf[b].m_buf = Null => size(b) = 0 /\ capacity(b) = 0
            /\ capacity(b) > 0 =>
                  /\ buf[b].m_buf # Null
                  /\ heap[buf[b].m_buf].st = "live"
                  /\ Len(heap[buf[b].m_buf].data) = capacity(b) + 1

\* C3: detach() hands the caller the block the buffer owned and leaves the
\* buffer in the state of a default-constructed one, so that every later call
\* on it does what it does on a default-constructed buffer.
C3_DetachResetsBuffer ==
    [][last'.op = "detach" =>
          \A b \in {last'.b} :
              /\ held' = held \cup ({buf[b].m_buf} \ {Null})
              /\ buf'[b] = EmptyBuf]_vars

\* C4: a reserve(n) or reserveForOne() that fails because the allocator returned
\* null signals badAlloc and leaves the buffer's fields, its elements and the
\* heap as they were: the old block is still allocated and still the buffer's.
C4_FailedReallocKeepsBuffer ==
    [][last'.op \in {"reserve", "reserveForOne"} /\ last'.res = "badAlloc" /\ last'.called =>
          /\ buf' = buf
          /\ heap' = heap
          /\ held' = held]_vars

\* the capacities above maxCapacity() that a std::size_t can hold
TooLarge == (maxCapacity + 1)..SizeMax

\* C5: for every n > maxCapacity(), FastStringBuffer(n) and reserve(n) end in
\* badAlloc under both policies without calling the allocator, and leave every
\* buffer and the heap as they were.
C5_TooLargeRequestFails ==
    [][last'.op \in {"constructSized", "reserve"} =>
          \A b \in {last'.b}, n \in TooLarge :
              ConstructSized(b, n) \/ Reserve(b, n) =>
                  /\ last'.res = "badAlloc"
                  /\ ~last'.called
                  /\ buf' = buf
                  /\ heap' = heap
                  /\ held' = held]_vars

\* a too large request was refused on a buffer that holds elements
C5_Witness ==
    /\ last.op = "reserve"
    /\ last.res = "badAlloc"
    /\ ~last.called
    /\ buf["a"].m_buf # Null
    /\ size("a") = 2

\* the smallest power of two >= x, as a number
LeastPow2(x) ==
    CHOOSE p \in {Pow2(k) : k \in 0..(W + 1)} :
        /\ p >= x
        /\ \A q \in {Pow2(k) : k \in 0..(W + 1)} : q >= x => p <= q

\* the step constructs b with FastStringBuffer(n) and succeeds
SizedOk(b, n) == ConstructSized(b, n)
\* the step is a reserve(n) on b that had to grow the storage and succeeded
ReserveGrew(b, n) == capacity(b) < n /\ Reserve(b, n)

\* the step is a call that may have given its buffer new storage, and succeeded
Grew == last'.op \in {"constructSized", "reserve"} /\ last'.res = "ok"

\* C6 as claimed: under pow2, a successful FastStringBuffer(n) or growing
\* reserve(n) with 0 < n <= maxCapacity() leaves capacity() + 1 equal to the
\* smallest power of two >= n + 1.
C6_Pow2CapacityAsClaimed ==
    [][allocMode = "pow2" /\ Grew =>
          \A b \in {last'.b}, n \in 1..maxCapacity :
              SizedOk(b, n) \/ ReserveGrew(b, n) =>
                  capacity(b)' + 1 = LeastPow2(n + 1)]_vars

\* C6 amended: ... leaves capacity() + 1 equal to the smallest power of two
\* >= n + 1 where that is below maxCapacity() + 1, and to maxCapacity() + 1
\* otherwise.
C6_Pow2CapacityClamped ==
    [][allocMode = "pow2" /\ Grew =>
          \A b \in {last'.b}, n \in 1..maxCapacity :
              SizedOk(b, n) \/ ReserveGrew(b, n) =>
                  capacity(b)' + 1 = Min(LeastPow2(n + 1), maxCapacity + 1)]_vars

\* a pow2 buffer was grown to a storage size that is clamped and no power of two
C6_Witness ==
    /\ allocMode = "pow2"
    /\ last.op = "reserve"
    /\ last.res = "ok"
    /\ last.called
    /\ capacity("a") = maxCapacity
    /\ capacity("a") + 1 # LeastPow2(capacity("a") + 1)

\* C7: under accurate, a successful FastStringBuffer(n) or growing reserve(n)
\* with 0 < n <= maxCapacity() leaves capacity() = n.
C7_AccurateCapacity ==
    [][allocMode = "accurate" /\ Grew =>
          \A b \in {last'.b}, n \in 1..maxCapacity :
              SizedOk(b, n) \/ ReserveGrew(b, n) =>
                  /\ capacity(b)' = n
                  /\ Len(heap'[buf'[b].m_buf].data) = n + 1]_vars

\* an accurate buffer that holds elements was grown to a capacity of 5
C7_Witness ==
    /\ allocMode = "accurate"
    /\ last.op = "reserve"
    /\ last.res = "ok"
    /\ last.called
    /\ size("a") = 2
    /\ capacity("a") = 5

\* C8: while only successful reserve, reserveForOne and append calls were made
\* on a buffer since its construction, size() is the number of elements appended,
\* the content is what was appended, in order, and no call lowers capacity().
C8_AppendsAccumulate ==
    [][\A b \in objs \cap {last'.b} :
          appended'[b].ok =>
              /\ size(b)' = Len(appended'[b].seq)
              /\ content(b)' = appended'[b].seq
              /\ buf[b].alive => capacity(b)' >= capacity(b)]_vars

\* the blocks that buffer objects own, and how many owners block i has
Owners(i) == {b \in objs : buf[b].alive /\ buf[b].m_buf = i}

\* C9: no block is released twice and none while a buffer owns it; every
\* allocated block has exactly one owner, a buffer or the caller that detached
\* it; destroying a buffer whose storage is null releases nothing.
C9_ReleasedOnce ==
    /\ halted # "doubleFree"
    /\ \A b \in objs : buf[b].alive /\ buf[b].m_buf # Null => heap[buf[b].m_buf].st = "live"
    /\ \A i \in held : heap[i].st = "live"
    /\ \A i \in BlockIds :
          heap[i].st = "live" =>
              Cardinality(Owners(i)) + (IF i \in held THEN 1 ELSE 0) = 1

\* C10: borrowTail(), k elements written at the borrowed position, and
\* returnTail(position + k) leave size() = s + k, capacity() and the block as
\* they were, the elements [0, s) as they were and [s, s + k) as written.
C10_TailRoundTrip ==
    [][last'.op = "returnTail" =>
          \A b \in {last'.b} :
              /\ size(b)' = tail.from + Len(tail.written)
              /\ capacity(b)' = tail.cap
              /\ buf'[b].m_buf = tail.blk
              /\ content(b)' = tail.before \o tail.written]_vars

\* a tail borrowed at size 1 came back one element further
C10_Witness ==
    /\ last.op = "returnTail"
    /\ size("a") = 2
    /\ content("a") = <<1, 2>>

\* C11: append(p, n) with p pointing at index i of the buffer's own storage and
\* i + n <= size(), with room for n more elements, leaves the size increased by
\* n and the content followed by a copy of what elements i .. i + n - 1 were.
C11_SelfAppendAsCopy ==
    [][last'.op = "appendSelf" =>
          \A b \in {last'.b}, i \in 0..MaxSelfSize, n \in 1..MaxAppend :
              i + n <= size(b) /\ AppendSelf(b, i, n) =>
                  /\ halted' = "no"
                  /\ size(b)' = size(b) + n
                  /\ capacity(b)' = capacity(b)
                  /\ content(b)' = content(b) \o SubSeq(content(b), i + 1, i + n)]_vars

\* the last two elements of a buffer of three were appended to it
C11_Witness ==
    /\ last.op = "appendSelf"
    /\ halted = "no"
    /\ size("a") = 4
    /\ \E x, y \in Chars : x # y /\ content("a") = <<x, x, y, x>>

\* C12: a = std::move(b), for any two constructed buffers, the same object
\* included, leaves a with the block, size, capacity and content b had and b with
\* those a had, and neither allocates nor releases a block.
C12_MoveAssignSwaps ==
    [][last'.op = "moveAssign" =>
          \A b \in {last'.b}, o \in objs :
              MoveAssign(b, o) =>
                  /\ buf'[b] = buf[o]
                  /\ buf'[o] = buf[b]
                  /\ content(b)' = content(o)
                  /\ content(o)' = content(b)
                  /\ heap' = heap
                  /\ held' = held]_vars

\* two buffers with different content and different capacities were exchanged
C12_Witness ==
    /\ last.op = "moveAssign"
    /\ content("a") = <<1>>
    /\ content("b") = <<2>>
    /\ capacity("a") # capacity("b")

\* C13: the move constructor gives the new buffer the block, size and capacity
\* of o and leaves o as a default-constructed buffer, so that the block has one
\* owner, the new buffer.
C13_MoveConstructTransfers ==
    [][last'.op = "moveConstruct" =>
          \A b \in {last'.b}, o \in objs :
              MoveConstruct(b, o) =>
                  /\ buf'[b] = buf[o]
                  /\ content(b)' = content(o)
                  /\ buf'[o] = EmptyBuf
                  /\ heap' = heap
                  /\ buf[o].m_buf # Null =>
                        {x \in objs : buf'[x].alive /\ buf'[x].m_buf = buf[o].m_buf} = {b}]_vars

\* a buffer holding an element was moved into a new object
C13_Witness ==
    /\ last.op = "moveConstruct"
    /\ last.b = "b"
    /\ content("b") = <<2>>
    /\ capacity("b") = 1
    /\ buf["a"] = EmptyBuf

\* C14: under pow2, for every buffer that is full with capacity() below
\* maxCapacity(), the 2 * capacity + 1 of expand() neither wraps nor exceeds
\* maxCapacity(), and the byte count (newCapacity + 1) * sizeof(CharType) does
\* not wrap; no reserveForOne() gets past a failed assert(newCapacity <=
\* maxCapacity()).
C14_ExpandNeverOverflows ==
    /\ halted # "overflow"
    /\ \A b \in objs :
          /\ allocMode = "pow2"
          /\ buf[b].alive
          /\ buf[b].m_buf # Null
          /\ size(b) = capacity(b)
          /\ capacity(b) < maxCapacity
          => /\ 2 * capacity(b) + 1 <= SizeMax
             /\ 2 * capacity(b) + 1 <= maxCapacity
             /\ (2 * capacity(b) + 2) * charSize <= SizeMax

\* C15: for every n in 1 .. SIZE_MAX, nextStorageSize(n) fails or returns a size
\* s with n + 1 <= s <= maxCapacity() + 1, where n + 1, the rounding to a power of
\* two and s * sizeof(CharType) are all within std::size_t; under pow2, where the
\* power of two reaches maxCapacity() + 1 and n <= maxCapacity(), s is
\* maxCapacity() + 1.
C15_NextStorageSizeSound ==
    \A n \in 1..SizeMax :
        LET s == nextStorageSize(n)
        IN /\ s # BadAlloc =>
                 /\ n + 1 <= SizeMax
                 /\ allocMode = "pow2" => LeastPow2(n + 1) <= SizeMax
                 /\ n + 1 <= s
                 /\ s <= maxCapacity + 1
                 /\ s * charSize <= SizeMax
           /\ allocMode = "pow2" /\ n <= maxCapacity /\ LeastPow2(n + 1) >= maxCapacity + 1 =>
                 s = maxCapacity + 1

\* a sized constructor got a size that was reduced to maxCapacity() + 1
C15_Witness ==
    /\ allocMode = "pow2"
    /\ last.op = "constructSized"
    /\ last.res = "ok"
    /\ capacity("a") = maxCapacity
    /\ LeastPow2(maxCapacity + 1) > maxCapacity + 1
    /\ nextStorageSize(maxCapacity) = maxCapacity + 1

\* C16: reserveForOne() changes nothing where size() < capacity().  Where
\* size() = capacity() and it succeeds, the capacity is the one reserve(capacity
\* + 1) would give (capacity + 1 under accurate, 2 * capacity + 1 under pow2),
\* size and content are kept and size() < capacity() afterwards.  Where the
\* buffer is full at maxCapacity() it fails and changes nothing.
C16_ReserveForOneOneStep ==
    [][last'.op = "reserveForOne" =>
          \A b \in {last'.b} :
              /\ size(b) < capacity(b) =>
                    /\ last'.res = "ok"
                    /\ ~last'.called
                    /\ buf' = buf
                    /\ heap' = heap
              /\ size(b) = capacity(b) /\ last'.res = "ok" =>
                    /\ capacity(b)' = IF allocMode = "pow2" THEN 2 * capacity(b) + 1
                                                            ELSE capacity(b) + 1
                    /\ capacity(b)' = nextStorageSize(capacity(b) + 1) - 1
                    /\ size(b)' = size(b)
                    /\ content(b)' = content(b)
                    /\ size(b)' < capacity(b)'
              /\ size(b) = capacity(b) /\ capacity(b) = maxCapacity =>
                    /\ last'.res # "ok"
                    /\ buf' = buf
                    /\ heap' = heap]_vars

\* C17: reserve(n) with capacity() >= n calls no allocator and leaves the buffer
\* and the heap as they were.  Otherwise, where it succeeds, capacity() >= n
\* afterwards, the capacity did not shrink, and size and content are as before.
C17_ReserveFrame ==
    [][last'.op = "reserve" /\ last'.res = "ok" =>
          \A b \in {last'.b}, n \in Requests :
              Reserve(b, n) =>
                  IF capacity(b) >= n
                  THEN /\ ~last'.called
                       /\ buf' = buf
                       /\ heap' = heap
                  ELSE /\ last'.called
                       /\ capacity(b)' >= n
                       /\ capacity(b)' >= capacity(b)
                       /\ size(b)' = size(b)
                       /\ content(b)' = content(b)
                       /\ Len(heap'[buf'[b].m_buf].data) = capacity(b)' + 1]_vars

\* a buffer holding two elements was grown by reserve
C17_Witness ==
    /\ last.op = "reserve"
    /\ last.res = "ok"
    /\ last.called
    /\ size("a") = 2
    /\ content("a") = <<2, 1>>
    /\ capacity("a") > 3

\* the slot at index size() of b is inside an allocated block of capacity() + 1
\* slots
SlotInside(b) ==
    buf[b].alive /\ buf[b].m_buf # Null =>
        /\ heap[buf[b].m_buf].st = "live"
        /\ Len(heap[buf[b].m_buf].data) = capacity(b) + 1
        /\ size(b) < Len(heap[buf[b].m_buf].data)

\* C18: in every state a step leads to, the slot at index size() of every
\* buffer with storage lies inside its block of capacity() + 1 slots; c_str()
\* on a buffer without storage writes nothing and returns `empty`; otherwise it
\* writes that slot only, and what it returns is the content followed by zero,
\* with size, capacity, block and content as before.
C18_CStrTerminates ==
    [][/\ \A b \in objs : SlotInside(b)'
       /\ last'.op = "c_str" =>
             \A b \in {last'.b} :
                 /\ halted' = "no"
                 /\ buf' = buf
                 /\ content(b)' = content(b)
                 /\ View(b)' = content(b) \o <<Zero>>
                 /\ IF buf[b].m_buf = Null
                    THEN heap' = heap
                    ELSE heap' = [heap EXCEPT ![buf[b].m_buf].data[size(b) + 1] = Zero]]_vars

\* the call ended in a failed assert and changed neither the buffers nor the heap
Reported == halted' = "assert" /\ buf' = buf /\ heap' = heap

\* C19: with assert() compiled in, an append of more elements than the capacity
\* leaves room for, an append of one element at size() = capacity(), any append
\* to a buffer without storage, a resize beyond the capacity and a returnTail
\* of a position beyond capacity() each end in a failed assert with the buffer
\* unchanged, whether Tail is a pointer or a class.
C19_ViolationsAsserted ==
    [][\A b \in {last'.b} \cap objs :
          /\ last'.op = "append" =>
                \A s \in Sources :
                    /\ buf[b].m_buf = Null \/ size(b) + Len(s) > capacity(b)
                    /\ AppendStr(b, s)
                    => Reported
          /\ last'.op = "appendChar" /\ (buf[b].m_buf = Null \/ size(b) >= capacity(b)) =>
                Reported
          /\ last'.op = "resize" =>
                \A n \in 0..SizeLimit : n > capacity(b) /\ Resize(b, n) => Reported
          /\ last'.op = "returnTail" /\ tail.ptr > capacity(b) =>
                Reported]_vars

\* the part of the example that does not depend on which append is the first to
\* break the contract: reserve(5) on the default-constructed buffer gives
\* capacity 7 in a block of 8, an append within the first five adds its element,
\* and c_str() at size 5 shows the five elements and a zero
ExampleUpToFive(b) ==
    /\ last'.op = "reserve" /\ last'.res = "ok" =>
          /\ capacity(b)' = 7
          /\ Len(heap'[buf'[b].m_buf].data) = 8
    /\ last'.op = "appendChar" /\ buf[b].m_buf # Null /\ size(b) < 5 =>
          /\ halted' = "no"
          /\ size(b)' = size(b) + 1
          /\ \E c \in Chars : content(b)' = Append(content(b), c)
    /\ last'.op = "c_str" /\ size(b) = 5 =>
          /\ size(b)' = 5
          /\ View(b)' = content(b) \o <<Zero>>

\* C20 as stated: ... and a sixth append without a reserve before it ends in a
\* failed assert.
C20_SixthAppendAsserted ==
    [][\A b \in {last'.b} \cap objs :
          /\ ExampleUpToFive(b)
          /\ last'.op = "appendChar" /\ size(b) = 5 => Reported]_vars

\* C20, amended: ... and the sixth and the seventh append are within the
\* capacity of 7 and add their element; the eighth ends in a failed assert.
C20_EighthAppendAsserted ==
    [][\A b \in {last'.b} \cap objs :
          /\ ExampleUpToFive(b)
          /\ last'.op = "appendChar" /\ size(b) \in {5, 6} =>
                /\ halted' = "no"
                /\ size(b)' = size(b) + 1
                /\ capacity(b)' = 7
          /\ last'.op = "appendChar" /\ size(b) = 7 => Reported]_vars

\* a sixth element was appended to the buffer of capacity 7
C20_Witness ==
    /\ last.op = "appendChar"
    /\ halted = "no"
    /\ capacity("a") = 7
    /\ size("a") = 6
    /\ heap[buf["a"].m_buf].data[6] # Zero

\* the calls the claim is about
ClaimCalls == {"copy", "destroy", "returnTail"}
OnlyClaimCalls == \A i \in 1..Len(tailCalls) : tailCalls[i].op \in ClaimCalls
\* the places in the sequence where returnTail was called
ReturnCalls == {i \in 1..Len(tailCalls) : tailCalls[i].op = "returnTail"}
\* no Tail is left, and the last call destroyed the Tail that call i returned
DestroyedLast(i) ==
    /\ \A x \in TailIds : ~tails[x].alive
    /\ tailCalls[Len(tailCalls)].op = "destroy"
    /\ tailCalls[Len(tailCalls)].t = tailCalls[i].t
    /\ \A j \in (i + 1)..(Len(tailCalls) - 1) :
          ~(tailCalls[j].op = "destroy" /\ tailCalls[j].t = tailCalls[i].t)

\* C21: with Tail a class and assert() compiled in, of any sequence of copy
\* constructions, destructions and returnTail calls on the Tails of one
\* borrowTail(): when returnTail was called more than once, on one Tail or on
\* two, an assertion has failed; when the last Tail was destroyed and returnTail
\* was never called, an assertion has failed; and when returnTail was called
\* exactly once and the Tail it returned was destroyed last, none has.
C21_ReturnedOnlyOnce ==
    OnlyClaimCalls =>
        /\ Cardinality(ReturnCalls) >= 2 => halted = "assert"
        /\ ( /\ ReturnCalls = {}
             /\ tailCalls # <<>>
             /\ \A x \in TailIds : ~tails[x].alive ) => halted = "assert"
        /\ \A i \in ReturnCalls :
              Cardinality(ReturnCalls) = 1 /\ DestroyedLast(i) => halted = "no"

====
